---- MODULE Spec2Model ----
(***************************************************************************)
(* The image bookmarking gallery of src/src/App.tsx as a state machine.    *)
(* The state is the React state of the App component (images, viewerIndex, *)
(* urlInput, isSubmitting) together with the localStorage entry that holds *)
(* the list.  Every action is one event handler followed by the effects    *)
(* React runs before the next event is handled (the save effect after each *)
(* change of images).  Handlers close over the values of the render that   *)
(* precedes the event, which is the current state.                         *)
(*                                                                         *)
(* The list and the viewer, the theme flag, the touch gestures, the        *)
(* storage failures and the URL validator do not read each other's state,  *)
(* so each has a specification of its own over the same variables: Spec    *)
(* (list and viewer), SpecViewer (keys and touch), SpecTheme, SpecStorage  *)
(* and SpecValidator.                                                      *)
(***************************************************************************)
EXTENDS Integers, Sequences, FiniteSets, TLC

\* Number of distinct values crypto.randomUUID() can return in one run.
MaxIds == 3
\* Longest list found in localStorage when the page loads.
MaxStored == 1

VARIABLES
  phase,         \* "boot" before the mount effects ran, then "ready" or "crashed"
  images,        \* useState<ImageItem[]>, App.tsx:24
  viewerIndex,   \* useState<number | null>, App.tsx:25
  urlInput,      \* useState(''), App.tsx:23
  isSubmitting,  \* useState(false), App.tsx:26
  storage,       \* localStorage[STORAGE_KEY]
  isDarkMode,    \* useState(() => ...), App.tsx:15-22
  themeStore,    \* localStorage[THEME_STORAGE_KEY]
  osDark,        \* matchMedia('(prefers-color-scheme: dark)').matches
  lsMode,        \* "ok", "quota" (setItem throws) or "denied" (every access throws)
  touchStartX,   \* useRef<number | null>(null), App.tsx:131
  issued,        \* the UUIDs handed out so far (those of stored records included)
  now,           \* the reading Date.now() gives next
  last           \* the event handled last: [op, arg]

vars == <<phase, images, viewerIndex, urlInput, isSubmitting, storage, isDarkMode,
          themeStore, osDark, lsMode, touchStartX, issued, now, last>>

\* The state outside the list and the viewer.
themeVars == <<isDarkMode, themeStore, osDark>>

----------------------------------------------------------------------------
(* Values *)

Ids == 1..MaxIds

\* number | null.  A number is [t |-> "num", n |-> i]; JavaScript arithmetic
\* can also produce NaN (x % 0).
Null == [t |-> "null", n |-> 0]
NaN == [t |-> "nan", n |-> 0]
Num(i) == [t |-> "num", n |-> i]

\* Text is a sequence of tokens; SP is one white-space character.
SP == " "
UrlA == <<"https:", "//x/a.png">>
UrlAPadded == <<SP, "https:", "//x/a.png", SP>>
UrlB == <<"http:", "//x/b.png">>
UrlFtp == <<"ftp:", "//x/c.png">>
NoScheme == <<"x/a.png">>
Blank == <<SP, SP>>
Empty == <<>>

\* What the user can put in the input field.
Inputs == {Empty, Blank, UrlAPadded, UrlFtp}

\* ImageItem, App.tsx:4-9.  error?: boolean is FALSE when the property is absent.
ImageItem(id, url, createdAt, error) ==
  [id |-> id, url |-> url, createdAt |-> createdAt, error |-> error]

----------------------------------------------------------------------------
(* String.prototype.trim and the URL constructor *)

RECURSIVE TrimStart(_)
TrimStart(s) == IF s # <<>> /\ Head(s) = SP THEN TrimStart(Tail(s)) ELSE s

RECURSIVE TrimEnd(_)
TrimEnd(s) ==
  IF s # <<>> /\ s[Len(s)] = SP THEN TrimEnd(SubSeq(s, 1, Len(s) - 1)) ELSE s

Trim(s) == TrimEnd(TrimStart(s))

Schemes == {"https:", "http:", "ftp:"}

\* new URL(s).protocol, or "TypeError" when the constructor throws: s has no
\* scheme (a relative reference without a base), no host after the scheme, or
\* white space where the host starts.
URLProtocol(s) ==
  LET t == Trim(s)
  IN IF t = <<>> \/ Head(t) \notin Schemes THEN "TypeError"
     ELSE IF Len(t) < 2 THEN "TypeError"
     ELSE IF t[2] = SP THEN "TypeError"
     ELSE Head(t)

\* Mutant: plain http is refused.
IsValidUrlHttpsOnly(input) ==
  IF Trim(input) = <<>> THEN FALSE
  ELSE URLProtocol(Trim(input)) = "https:"

\* Mutant: the scheme is not looked at.
IsValidUrlAnyScheme(input) ==
  IF Trim(input) = <<>> THEN FALSE
  ELSE URLProtocol(Trim(input)) # "TypeError"

\* isValidUrl, App.tsx:59-67, as a function of the input text.
IsValidUrl(input) ==
  IF Trim(input) = <<>> THEN FALSE
  ELSE LET p == URLProtocol(Trim(input))
       IN IF p = "TypeError" THEN FALSE ELSE p \in {"http:", "https:"}

isValidUrl == IsValidUrl(urlInput)

\* disabled={!isValidUrl || isSubmitting} of the submit button, App.tsx:226,
\* and the guard of addImage, App.tsx:70
SubmitDisabled == ~isValidUrl \/ isSubmitting

----------------------------------------------------------------------------
(* JSON.stringify and JSON.parse of the list *)

\* Mutant: the failed flag is not written.
StringifyItemNoError(img) ==
  <<  <<"id", img.id>>, <<"url", img.url>>, <<"createdAt", img.createdAt>> >>

\* One object of the JSON text: its members in insertion order.  A property
\* whose value is undefined is left out.
StringifyItem(img) ==
  <<  <<"id", img.id>>, <<"url", img.url>>, <<"createdAt", img.createdAt>> >>
  \o (IF img.error THEN << <<"error", TRUE>> >> ELSE <<>>)

\* JSON.stringify(images), App.tsx:55
Stringify(imgs) ==
  [kind |-> "array", items |-> [i \in 1..Len(imgs) |-> StringifyItem(imgs[i])]]

HasMember(obj, key) == \E i \in 1..Len(obj) : obj[i][1] = key
Member(obj, key) == obj[CHOOSE i \in 1..Len(obj) : obj[i][1] = key][2]

\* Mutant: the failed flag is not read back.
ParseItemNoError(obj) ==
  ImageItem(Member(obj, "id"), Member(obj, "url"), Member(obj, "createdAt"), FALSE)

\* One object of the parsed array: a member that is absent reads as undefined,
\* which the tile treats as not failed (img.error, App.tsx:263).
ParseItem(obj) ==
  ImageItem(Member(obj, "id"), Member(obj, "url"), Member(obj, "createdAt"),
            HasMember(obj, "error"))

\* JSON.parse(raw) for a text that holds an array, App.tsx:47
JSONParse(raw) == [i \in 1..Len(raw.items) |-> ParseItem(raw.items[i])]

\* localStorage.getItem gives null for a missing key.
StorageNull == [kind |-> "null", items |-> <<>>]
\* A text JSON.parse throws on.
StorageGarbage == [kind |-> "garbage", items |-> <<>>]
\* A JSON text that is not an array, such as {}.
StorageObject == [kind |-> "object", items |-> <<>>]

\* Mutant: the list is never written.
SaveEffectSkipped(imgs) == storage

\* The save effect, App.tsx:53-57: the stored text after it ran for the list
\* imgs.  A setItem that throws is caught and leaves the stored text.
SaveEffect(imgs) ==
  IF lsMode = "ok" THEN Stringify(imgs) ELSE storage

----------------------------------------------------------------------------
(* The theme *)

\* getItem gives null when nothing is stored under the theme key.
ThemeMissing == "<missing>"

\* What can be found under the theme key: nothing, what the app writes, or a
\* text something else wrote.
ThemeValues == {ThemeMissing, "", "dark", "light", "blue"}

\* if (stored), App.tsx:18: null and the empty string are falsy.
Truthy(stored) == stored \notin {ThemeMissing, ""}

\* Mutant: the OS preference wins over a stored "light".
InitialDarkOsFirst(stored, os) == os \/ stored = "dark"

\* The initializer of isDarkMode, App.tsx:15-22
InitialDark(stored, os) ==
  IF Truthy(stored) THEN stored = "dark" ELSE os

\* Mutant: the effect writes the value of before the toggle.
ThemeStringStale(dark) == IF dark THEN "light" ELSE "dark"

\* The text the theme effect stores, App.tsx:30-36
ThemeString(dark) == IF dark THEN "dark" ELSE "light"

----------------------------------------------------------------------------
(* The lists an earlier run of the app can have left in storage *)

StoredUrls == {UrlB}

StoredItems ==
  {ImageItem(id, url, 0, e) : id \in Ids, url \in StoredUrls, e \in BOOLEAN}

UniqueIds(imgs) ==
  \A i, j \in 1..Len(imgs) : imgs[i].id = imgs[j].id => i = j

\* The stored records carry the UUIDs generated first.
StoredLists ==
  {l \in UNION {[1..n -> StoredItems] : n \in 0..MaxStored} :
     UniqueIds(l) /\ \A i \in 1..Len(l) : l[i].id <= Len(l)}

IdsOf(imgs) == {imgs[i].id : i \in 1..Len(imgs)}

----------------------------------------------------------------------------
(* JavaScript arithmetic on number | null *)

Abs(a) == IF a < 0 THEN -a ELSE a

\* a % n: the sign of the dividend, NaN for n = 0 (-0 is 0 here).
JsRem(a, n) ==
  IF n = 0 THEN NaN
  ELSE Num((IF a < 0 THEN -1 ELSE 1) * (Abs(a) % Abs(n)))

\* Math.min(curr, k) for a number curr
MathMin(curr, k) ==
  IF curr = NaN THEN NaN ELSE Num(IF curr.n < k THEN curr.n ELSE k)

----------------------------------------------------------------------------
(* The state updaters of the handlers *)

\* Mutant: a generator that can repeat a value it has returned before.
RandomUUIDRepeating(used) == Ids

\* crypto.randomUUID(), App.tsx:73: a value it has not returned before.  The
\* UUIDs are named 1, 2, ... in the order they are generated.
RandomUUID(used) == {id \in Ids : id = Cardinality(used) + 1}

\* newItem, App.tsx:72-76
NewItem(id, input, t) == ImageItem(id, Trim(input), t, FALSE)

\* Mutant: the new record is appended.
AddImageAppend(prev, newItem) == Append(prev, newItem)

\* prev => [newItem, ...prev], App.tsx:77
AddImageUpdater(prev, newItem) == <<newItem>> \o prev

\* Mutant: removes the first record whatever its id.
RemoveFirst(prev, id) == Tail(prev)

\* prev => prev.filter(img => img.id !== id), App.tsx:83
RemoveImageUpdater(prev, id) == SelectSeq(prev, LAMBDA img : img.id # id)

\* Mutant: the cursor is clamped to the length before the removal.
RemoveViewerNoClamp(curr, length) ==
  IF curr = Null THEN Null ELSE MathMin(curr, length - 1)

\* curr => (curr === null ? null : Math.min(curr, images.length - 2)), App.tsx:84
RemoveViewerUpdater(curr, length) ==
  IF curr = Null THEN Null ELSE MathMin(curr, length - 2)

\* Mutant: an id that is not in the list flags the first record.
HandleImageErrorFallback(prev, id) ==
  [i \in 1..Len(prev) |->
     IF prev[i].id = id \/ (i = 1 /\ \A j \in 1..Len(prev) : prev[j].id # id)
     THEN [prev[i] EXCEPT !.error = TRUE] ELSE prev[i]]

\* Mutant: flags every record.
HandleImageErrorAll(prev, id) ==
  [i \in 1..Len(prev) |-> [prev[i] EXCEPT !.error = TRUE]]

\* Mutant: takes the flagged record out and puts it back at the end.
HandleImageErrorMoveLast(prev, id) ==
  SelectSeq(prev, LAMBDA img : img.id # id)
  \o [i \in 1..Len(SelectSeq(prev, LAMBDA img : img.id = id)) |->
        [SelectSeq(prev, LAMBDA img : img.id = id)[i] EXCEPT !.error = TRUE]]

\* prev => prev.map(img => img.id === id ? { ...img, error: true } : img),
\* App.tsx:88-90
HandleImageErrorUpdater(prev, id) ==
  [i \in 1..Len(prev) |->
     IF prev[i].id = id THEN [prev[i] EXCEPT !.error = TRUE] ELSE prev[i]]

\* [arr[i], arr[j]] = [arr[j], arr[i]] with 0-based i and j, App.tsx:98
Swap(arr, i, j) ==
  [arr EXCEPT ![i + 1] = arr[j + 1], ![j + 1] = arr[i + 1]]

\* The loop of shuffleImages, App.tsx:96-99, from index i down: every array
\* the draws of Math.random can leave.
RECURSIVE FisherYates(_, _)
FisherYates(arr, i) ==
  IF i <= 0 THEN {arr}
  ELSE UNION {FisherYates(Swap(arr, i, j), i - 1) : j \in 0..i}

\* The updater of shuffleImages, App.tsx:94-101
ShuffleUpdater(prev) == FisherYates(prev, Len(prev) - 1)

\* Mutant: no wrap-around at index 0.
GoPrevNoWrap(curr, length) ==
  IF curr = Null THEN Null
  ELSE IF curr = NaN THEN NaN
  ELSE Num(IF curr.n = 0 THEN 0 ELSE curr.n - 1)

\* curr => (curr === null ? null : (curr - 1 + images.length) % images.length),
\* App.tsx:113
GoPrevUpdater(curr, length) ==
  IF curr = Null THEN Null
  ELSE IF curr = NaN THEN NaN
  ELSE JsRem(curr.n - 1 + length, length)

\* curr => (curr === null ? null : (curr + 1) % images.length), App.tsx:117
GoNextUpdater(curr, length) ==
  IF curr = Null THEN Null
  ELSE IF curr = NaN THEN NaN
  ELSE JsRem(curr.n + 1, length)

\* images[viewerIndex] of App.tsx:308 is an element (not undefined).
HasImageAt(imgs, curr) == curr.t = "num" /\ 0 <= curr.n /\ curr.n < Len(imgs)

\* The guard of the modal viewer, App.tsx:308
ViewerShown ==
  /\ viewerIndex # Null
  /\ HasImageAt(images, viewerIndex)
  /\ ~images[viewerIndex.n + 1].error

\* Mutant: every tile opens the viewer.
CanOpenAnyTile(imgs, index) == 0 <= index /\ index < Len(imgs)

\* The tile of images[index] holds the button that calls openViewer(index):
\* the tile of a record flagged error holds none, App.tsx:263-277.
CanOpen(imgs, index) ==
  0 <= index /\ index < Len(imgs) /\ ~imgs[index + 1].error

----------------------------------------------------------------------------
\* The state after construction, App.tsx:15-26 and 131, for the environment
\* (stored texts, OS preference, storage mode) found.  The initializer of
\* isDarkMode reads localStorage outside any try: when the access throws, the
\* first render throws.
Constructed ==
  /\ phase = (IF lsMode = "denied" THEN "crashed" ELSE "boot")
  /\ isDarkMode = (IF lsMode = "denied" THEN FALSE ELSE InitialDark(themeStore, osDark))
  /\ images = <<>>
  /\ viewerIndex = Null
  /\ urlInput = Empty
  /\ isSubmitting = FALSE
  /\ touchStartX = Null
  /\ now = 1
  /\ last = [op |-> "init", arg |-> 0]

Init ==
  /\ lsMode = "ok"
  /\ osDark = FALSE
  /\ themeStore = ThemeMissing
  /\ \E l \in StoredLists :
       /\ storage \in {StorageNull, StorageGarbage, StorageObject, Stringify(l)}
       /\ issued = IdsOf(l)
  /\ Constructed

\* The mount effects, in source order: the theme effect (App.tsx:28-37) stores
\* the theme text, outside any try: a setItem that throws ends the app.  The
\* load effect (App.tsx:43-51) reads the stored text and sets images; the save
\* effect (App.tsx:53-57) writes the list of the first render, []; the render
\* that follows shows the loaded list and its save effect writes it back.  A
\* loaded value that is not an array makes that render throw (images.map,
\* App.tsx:261).
Mount ==
  /\ phase = "boot"
  /\ LET parsed == IF storage.kind = "array" THEN JSONParse(storage) ELSE <<>>
     IN IF lsMode # "ok"
        THEN /\ phase' = "crashed"
             /\ UNCHANGED <<images, storage, themeStore>>
        ELSE IF storage.kind = "object"
        THEN /\ phase' = "crashed"
             /\ themeStore' = ThemeString(isDarkMode)
             /\ storage' = SaveEffect(<<>>)
             /\ UNCHANGED images
        ELSE /\ phase' = "ready"
             /\ themeStore' = ThemeString(isDarkMode)
             /\ images' = parsed
             /\ storage' = SaveEffect(parsed)
  /\ last' = [op |-> "mount", arg |-> 0]
  /\ UNCHANGED <<viewerIndex, urlInput, isSubmitting, isDarkMode, osDark, lsMode,
                 touchStartX, issued, now>>

\* A reload of the page: the component is constructed again over what the
\* storage holds, App.tsx:15-26.
Reload ==
  /\ phase \in {"ready", "crashed"}
  /\ phase' = (IF lsMode = "denied" THEN "crashed" ELSE "boot")
  /\ isDarkMode' = (IF lsMode = "denied" THEN FALSE ELSE InitialDark(themeStore, osDark))
  /\ images' = <<>>
  /\ viewerIndex' = Null
  /\ urlInput' = Empty
  /\ isSubmitting' = FALSE
  /\ touchStartX' = Null
  /\ last' = [op |-> "reload", arg |-> 0]
  /\ UNCHANGED <<storage, themeStore, osDark, lsMode, issued, now>>

\* onChange of the input field, App.tsx:207
SetUrlInput(v) ==
  /\ phase = "ready"
  /\ urlInput' = v
  /\ last' = [op |-> "setUrlInput", arg |-> 0]
  /\ UNCHANGED <<phase, images, viewerIndex, isSubmitting, storage, issued, now>>
  /\ UNCHANGED <<themeVars, lsMode, touchStartX>>

\* Mutant: the flag stays set after an add.
IsSubmittingStuck == TRUE

\* isSubmitting of the render after an add: setIsSubmitting(true), App.tsx:71,
\* and setIsSubmitting(false), App.tsx:79, are in one batch.
IsSubmittingAfterAdd == FALSE

\* handleSubmit, App.tsx:148-151, and addImage, App.tsx:69-80.  The two
\* setIsSubmitting calls are batched with the other updates: the flag of the next
\* render is the last value set, false.
HandleSubmit ==
  /\ phase = "ready"
  /\ IF SubmitDisabled
     THEN /\ UNCHANGED <<images, urlInput, isSubmitting, storage, issued, now>>
          /\ last' = [op |-> "addImage", arg |-> 0]
     ELSE \E id \in RandomUUID(issued) :
            /\ images' = AddImageUpdater(images, NewItem(id, urlInput, now))
            /\ urlInput' = Empty
            /\ isSubmitting' = IsSubmittingAfterAdd
            /\ storage' = SaveEffect(images')
            /\ issued' = issued \cup {id}
            /\ now' = now + 1
            /\ last' = [op |-> "addImage", arg |-> id]
  /\ UNCHANGED <<phase, viewerIndex, themeVars, lsMode, touchStartX>>

\* removeImage, App.tsx:82-85, from the remove button of a tile
RemoveImage(id) ==
  /\ phase = "ready"
  /\ id \in IdsOf(images)
  /\ images' = RemoveImageUpdater(images, id)
  /\ viewerIndex' = RemoveViewerUpdater(viewerIndex, Len(images))
  /\ storage' = SaveEffect(images')
  /\ last' = [op |-> "removeImage", arg |-> id]
  /\ UNCHANGED <<phase, urlInput, isSubmitting, issued, now>>
  /\ UNCHANGED <<themeVars, lsMode, touchStartX>>

\* handleImageError, App.tsx:87-91, from the error event of the <img> of a tile
\* (App.tsx:284); the event of an element that has left the page since carries
\* an id that is flagged already or is not in the list any more.
HandleImageError(id) ==
  /\ phase = "ready"
  /\ id \in issued
  /\ images' = HandleImageErrorUpdater(images, id)
  /\ storage' = SaveEffect(images')
  /\ last' = [op |-> "handleImageError", arg |-> id]
  /\ UNCHANGED <<phase, viewerIndex, urlInput, isSubmitting, issued, now>>
  /\ UNCHANGED <<themeVars, lsMode, touchStartX>>

\* shuffleImages, App.tsx:93-102
ShuffleImages ==
  /\ phase = "ready"
  /\ images' \in ShuffleUpdater(images)
  /\ storage' = SaveEffect(images')
  /\ last' = [op |-> "shuffleImages", arg |-> 0]
  /\ UNCHANGED <<phase, viewerIndex, urlInput, isSubmitting, issued, now>>
  /\ UNCHANGED <<themeVars, lsMode, touchStartX>>

\* openViewer, App.tsx:104-106, from the button of tile index
OpenViewer(index) ==
  /\ phase = "ready"
  /\ CanOpen(images, index)
  /\ viewerIndex' = Num(index)
  /\ last' = [op |-> "openViewer", arg |-> index]
  /\ UNCHANGED <<phase, images, urlInput, isSubmitting, storage, issued, now>>
  /\ UNCHANGED <<themeVars, lsMode, touchStartX>>

\* The keydown listener is on the window while viewerIndex is not null
\* (App.tsx:120-129); the buttons of the viewer exist while it is shown.
ViewerControls == phase = "ready" /\ viewerIndex # Null

\* closeViewer, App.tsx:108-110
CloseViewer ==
  /\ ViewerControls
  /\ viewerIndex' = Null
  /\ last' = [op |-> "closeViewer", arg |-> 0]
  /\ UNCHANGED <<phase, images, urlInput, isSubmitting, storage, issued, now>>
  /\ UNCHANGED <<themeVars, lsMode, touchStartX>>

\* goPrev, App.tsx:112-114
GoPrev ==
  /\ ViewerControls
  /\ viewerIndex' = GoPrevUpdater(viewerIndex, Len(images))
  /\ last' = [op |-> "goPrev", arg |-> 0]
  /\ UNCHANGED <<phase, images, urlInput, isSubmitting, storage, issued, now>>
  /\ UNCHANGED <<themeVars, lsMode, touchStartX>>

\* goNext, App.tsx:116-118
GoNext ==
  /\ ViewerControls
  /\ viewerIndex' = GoNextUpdater(viewerIndex, Len(images))
  /\ last' = [op |-> "goNext", arg |-> 0]
  /\ UNCHANGED <<phase, images, urlInput, isSubmitting, storage, issued, now>>
  /\ UNCHANGED <<themeVars, lsMode, touchStartX>>

Next ==
  \/ Mount
  \/ \E v \in Inputs : SetUrlInput(v)
  \/ HandleSubmit
  \/ \E id \in Ids : RemoveImage(id)
  \/ \E id \in Ids : HandleImageError(id)
  \/ ShuffleImages
  \/ \E index \in 0..(MaxIds - 1) : OpenViewer(index)
  \/ CloseViewer
  \/ GoPrev
  \/ GoNext
  \/ Reload

Spec == Init /\ [][Next]_vars

----------------------------------------------------------------------------
(* Keys and touch gestures *)

\* const threshold = 40, App.tsx:139
Threshold == 40

\* clientX of the touches: far enough apart for differences of 0, Threshold,
\* Threshold + 1 and more, in both directions.
TouchXs == {0, Threshold + 1, 2 * Threshold + 1}

\* e.key of the key events; "Enter" stands for every key without a binding.
Keys == {"Escape", "ArrowLeft", "ArrowRight", "Enter"}

\* Mutant: a difference of exactly the threshold counts as a swipe.
SwipeInclusive(delta) ==
  IF delta >= Threshold THEN "prev"
  ELSE IF delta <= -Threshold THEN "next"
  ELSE "none"

\* The branches of onTouchEnd, App.tsx:140-144
Swipe(delta) ==
  IF delta > Threshold THEN "prev"
  ELSE IF delta < -Threshold THEN "next"
  ELSE "none"

\* The keydown effect, App.tsx:120-129: the listener exists in the renders
\* whose viewerIndex is not null.
ListenerAttached == viewerIndex # Null

\* onKey, App.tsx:122-126, or no handler at all
KeyDown(key) ==
  /\ phase = "ready"
  /\ viewerIndex' =
       IF ~ListenerAttached THEN viewerIndex
       ELSE IF key = "Escape" THEN Null
       ELSE IF key = "ArrowLeft" THEN GoPrevUpdater(viewerIndex, Len(images))
       ELSE IF key = "ArrowRight" THEN GoNextUpdater(viewerIndex, Len(images))
       ELSE viewerIndex
  /\ last' = [op |-> "keydown", arg |-> 0]
  /\ UNCHANGED <<phase, images, urlInput, isSubmitting, storage, issued, now>>
  /\ UNCHANGED <<themeVars, lsMode, touchStartX>>

\* onTouchStart, App.tsx:132-134, on the overlay of the viewer (App.tsx:312)
TouchStart(x) ==
  /\ phase = "ready"
  /\ ViewerShown
  /\ touchStartX' = Num(x)
  /\ last' = [op |-> "touchStart", arg |-> x]
  /\ UNCHANGED <<phase, images, viewerIndex, urlInput, isSubmitting, storage, issued, now>>
  /\ UNCHANGED <<themeVars, lsMode>>

\* onTouchEnd, App.tsx:135-146, on the overlay of the viewer (App.tsx:313)
TouchEnd(x) ==
  /\ phase = "ready"
  /\ ViewerShown
  /\ IF touchStartX = Null
     THEN UNCHANGED <<viewerIndex, touchStartX>>
     ELSE /\ LET delta == x - touchStartX.n
             IN viewerIndex' =
                  CASE Swipe(delta) = "prev" -> GoPrevUpdater(viewerIndex, Len(images))
                    [] Swipe(delta) = "next" -> GoNextUpdater(viewerIndex, Len(images))
                    [] OTHER -> viewerIndex
          /\ touchStartX' = Null
  /\ last' = [op |-> "touchEnd", arg |-> x]
  /\ UNCHANGED <<phase, images, urlInput, isSubmitting, storage, issued, now>>
  /\ UNCHANGED <<themeVars, lsMode>>

NextViewer ==
  \/ Mount
  \/ SetUrlInput(UrlAPadded)
  \/ HandleSubmit
  \/ \E id \in Ids : RemoveImage(id)
  \/ \E id \in Ids : HandleImageError(id)
  \/ \E index \in 0..(MaxIds - 1) : OpenViewer(index)
  \/ CloseViewer
  \/ GoPrev
  \/ GoNext
  \/ \E key \in Keys : KeyDown(key)
  \/ \E x \in TouchXs : TouchStart(x)
  \/ \E x \in TouchXs : TouchEnd(x)

SpecViewer == Init /\ [][NextViewer]_vars

----------------------------------------------------------------------------
(* The theme *)

\* toggleDarkMode, App.tsx:39-41, and the theme effect that the changed flag
\* triggers, App.tsx:28-37.  The effect calls setItem outside any try: when it
\* throws, the app ends.
ToggleDarkMode ==
  /\ phase = "ready"
  /\ isDarkMode' = ~isDarkMode
  /\ IF lsMode = "ok"
     THEN /\ themeStore' = ThemeString(isDarkMode')
          /\ phase' = phase
     ELSE /\ phase' = "crashed"
          /\ UNCHANGED themeStore
  /\ last' = [op |-> "toggleDarkMode", arg |-> 0]
  /\ UNCHANGED <<images, viewerIndex, urlInput, isSubmitting, storage, osDark, lsMode,
                 touchStartX, issued, now>>

\* The user changes the colour scheme of the OS; the app reads it at
\* construction only, App.tsx:19.
SetOsPreference ==
  /\ osDark' = ~osDark
  /\ last' = [op |-> "osPreference", arg |-> 0]
  /\ UNCHANGED <<phase, images, viewerIndex, urlInput, isSubmitting, storage, isDarkMode,
                 themeStore, lsMode, touchStartX, issued, now>>

InitTheme ==
  /\ lsMode = "ok"
  /\ osDark \in BOOLEAN
  /\ themeStore \in ThemeValues
  /\ \E l \in StoredLists :
       /\ storage \in {StorageNull, Stringify(l)}
       /\ issued = IdsOf(l)
  /\ Constructed

NextTheme ==
  \/ Mount
  \/ ToggleDarkMode
  \/ SetOsPreference
  \/ Reload
  \/ SetUrlInput(UrlAPadded)
  \/ HandleSubmit
  \/ \E index \in 0..(MaxIds - 1) : OpenViewer(index)
  \/ CloseViewer

SpecTheme == InitTheme /\ [][NextTheme]_vars

----------------------------------------------------------------------------
(* Storage that fails *)

\* localStorage starts to throw: on writes only (the quota is used up) or on
\* every access (the user blocked site data).
StorageFails(mode) ==
  /\ phase \in {"boot", "ready"}
  /\ lsMode = "ok"
  /\ lsMode' = mode
  /\ last' = [op |-> "storageFails", arg |-> 0]
  /\ UNCHANGED <<phase, images, viewerIndex, urlInput, isSubmitting, storage, themeVars,
                 touchStartX, issued, now>>

InitStorage ==
  /\ lsMode \in {"ok", "quota", "denied"}
  /\ osDark = FALSE
  /\ themeStore \in {ThemeMissing, "dark"}
  /\ \E l \in StoredLists :
       /\ storage \in {StorageNull, Stringify(l)}
       /\ issued = IdsOf(l)
  /\ Constructed

NextStorage ==
  \/ Mount
  \/ \E mode \in {"quota", "denied"} : StorageFails(mode)
  \/ SetUrlInput(UrlAPadded)
  \/ HandleSubmit
  \/ \E id \in Ids : RemoveImage(id)
  \/ \E id \in Ids : HandleImageError(id)
  \/ ToggleDarkMode
  \/ Reload

SpecStorage == InitStorage /\ [][NextStorage]_vars

----------------------------------------------------------------------------
(* The validator over every text *)

\* The longest text typed, in tokens.
MaxLen == 3

\* The pieces of the texts: white space, schemes, and the rest of a URL with
\* and without the two slashes.
Tokens == {SP, "https:", "http:", "ftp:", "//x/a.png", "x/a.png"}

Texts == UNION {[1..n -> Tokens] : n \in 0..MaxLen}

InitValidator ==
  /\ lsMode = "ok"
  /\ osDark = FALSE
  /\ themeStore = ThemeMissing
  /\ storage = StorageNull
  /\ issued = {}
  /\ Constructed

NextValidator ==
  \/ Mount
  \/ \E v \in Texts : SetUrlInput(v)
  \/ Reload

SpecValidator == InitValidator /\ [][NextValidator]_vars

----------------------------------------------------------------------------
(* What the properties below say about texts and lists, stated apart from   *)
(* the operators of the model.                                              *)

BlankText(s) == \A i \in 1..Len(s) : s[i] = SP

FirstToken(s) ==
  s[CHOOSE i \in 1..Len(s) : s[i] # SP /\ \A j \in 1..(i - 1) : s[j] = SP]

\* An absolute http or https URL, white space around it allowed: the first
\* token that is not white space is the scheme, and the host follows it
\* directly.
HttpUrlText(s) ==
  /\ ~BlankText(s)
  /\ \E k \in 1..(Len(s) - 1) :
       /\ \A j \in 1..(k - 1) : s[j] = SP
       /\ s[k] \in {"http:", "https:"}
       /\ s[k + 1] # SP

\* The ids of the records of a that are in b too, in the order of a.
CommonIds(a, b) ==
  LET kept == SelectSeq(a, LAMBDA r : r.id \in IdsOf(b))
  IN [i \in 1..Len(kept) |-> kept[i].id]

\* Records that are in both lists are in the same order in both.
RelOrderKept(before, after) == CommonIds(before, after) = CommonIds(after, before)

Count(list, r) == Cardinality({i \in 1..Len(list) : list[i] = r})

\* after holds the records of before, each as often, in some order.
IsPermutation(before, after) ==
  /\ Len(after) = Len(before)
  /\ \A i \in 1..Len(before) : Count(after, before[i]) = Count(before, before[i])

\* before without its k-th record
WithoutAt(before, k) ==
  SubSeq(before, 1, k - 1) \o SubSeq(before, k + 1, Len(before))

----------------------------------------------------------------------------
\* C1: whenever the viewer cursor is not null it is an integer i with
\* 0 <= i < length of the list.  Removing the only record while the viewer is
\* open leaves the cursor at -1, so the code does not keep this.
C1_CursorInRange ==
  viewerIndex # Null =>
    (viewerIndex.t = "num" /\ 0 <= viewerIndex.n /\ viewerIndex.n < Len(images))

\* C2: with exactly one record in the list and the viewer open on it, removing
\* that record leaves the cursor null and no image shown.  The code leaves the
\* cursor at -1.
C2_RemoveLastCloses ==
  [][(/\ last'.op = "removeImage"
      /\ Len(images) = 1
      /\ viewerIndex = Num(0))
     => (viewerIndex' = Null /\ ~ViewerShown')]_vars

\* C3: remove(id) of an id in the list makes the list one shorter and takes out
\* the record with that id only: the others keep their fields and their order.
C3_RemoveFrame ==
  [][last'.op = "removeImage" =>
       /\ Len(images') = Len(images) - 1
       /\ \E k \in 1..Len(images) :
            /\ images[k].id = last'.arg
            /\ images' = WithoutAt(images, k)]_vars

\* C3 witness: a record from the middle or the end of a list of three was removed.
C3_Witness ==
  /\ last.op = "removeImage"
  /\ Len(images) = 2
  /\ last.arg \notin IdsOf(images)
  /\ \E i \in 1..2 : images[i].id > last.arg

\* C4: add with a valid URL in the input and no add in flight puts one new
\* record at index 0 (url the trimmed input, an id no record had, error not
\* set), keeps the records there were after it, unchanged and in order, and
\* clears the input.
C4_AddPrepends ==
  [][(last'.op = "addImage" /\ HttpUrlText(urlInput) /\ ~isSubmitting) =>
       /\ Len(images') = Len(images) + 1
       /\ images'[1].url = Trim(urlInput)
       /\ Head(images'[1].url) # SP
       /\ images'[1].url[Len(images'[1].url)] # SP
       /\ images'[1].id \notin IdsOf(images)
       /\ ~images'[1].error
       /\ Tail(images') = images
       /\ urlInput' = Empty]_vars

\* C4 witness: an add of the padded URL went in front of two older records.
C4_Witness ==
  /\ last.op = "addImage"
  /\ last.arg # 0
  /\ Len(images) = 3
  /\ images[1].id = last.arg
  /\ images[1].url = UrlA
  /\ urlInput = Empty

\* C5: add changes nothing (list, input, cursor, in-flight flag) when the input
\* is blank or no http/https URL, or while an add is in flight.
C5_AddRejected ==
  [][(last'.op = "addImage" /\ (~HttpUrlText(urlInput) \/ isSubmitting)) =>
       UNCHANGED <<images, urlInput, viewerIndex, isSubmitting>>]_vars

\* C5 witness: an add was submitted with an ftp URL in the input.
C5_Witness ==
  /\ last = [op |-> "addImage", arg |-> 0]
  /\ urlInput = UrlFtp
  /\ images # <<>>

C7_OrderNeverChanges ==
  [][RelOrderKept(images, images')]_vars

\* C7 as amended: every operation but shuffle keeps the relative order of the
\* records that stay; shuffle leaves the same records in some order.
C7_OrderKeptButShuffle ==
  [][/\ (last'.op # "shuffleImages") => RelOrderKept(images, images')
     /\ (last'.op = "shuffleImages") => IsPermutation(images, images')]_vars

\* C7 witness: after a shuffle a record generated earlier stands before a later one.
C7_Witness ==
  /\ last.op = "shuffleImages"
  /\ Len(images) = 3
  /\ images[1].id < images[2].id

\* C8: from Open(i) with list length N, prev leads to Open((i - 1 + N) mod N)
\* and next to Open((i + 1) mod N), N the length at the call; prev from 0 gives
\* N - 1, next from N - 1 gives 0; the list is not changed.
C8_Circular ==
  [][(HasImageAt(images, viewerIndex) /\ last'.op \in {"goPrev", "goNext"}) =>
       LET i == viewerIndex.n
           N == Len(images)
       IN /\ last'.op = "goPrev" => viewerIndex' = Num((i - 1 + N) % N)
          /\ last'.op = "goNext" => viewerIndex' = Num((i + 1) % N)
          /\ (last'.op = "goPrev" /\ i = 0) => viewerIndex' = Num(N - 1)
          /\ (last'.op = "goNext" /\ i = N - 1) => viewerIndex' = Num(0)
          /\ images' = images]_vars

\* C8 witness: prev has wrapped from index 0 to the end of a list of three.
C8_Witness ==
  /\ last.op = "goPrev"
  /\ Len(images) = 3
  /\ viewerIndex = Num(2)

\* C9 as stated: whenever the cursor is at an index of the list, the record
\* there is not flagged error.  prev/next step onto flagged records and
\* markError can flag the record the cursor is on.
C9_NeverOnError ==
  HasImageAt(images, viewerIndex) => ~images[viewerIndex.n + 1].error

\* C9 as amended: open(i) exists only for a record that is not flagged, so
\* right after it the viewer is shown on an unflagged record; and the viewer is
\* never shown on a flagged record (it is hidden while the cursor is on one).
C9_OpenOnlyUnflagged ==
  [][/\ last'.op = "openViewer" =>
          /\ viewerIndex' = Num(last'.arg)
          /\ HasImageAt(images', viewerIndex')
          /\ ~images'[viewerIndex'.n + 1].error
          /\ ViewerShown'
     /\ (HasImageAt(images', viewerIndex') /\ images'[viewerIndex'.n + 1].error)
          => ~ViewerShown']_vars

\* C9 witness: the viewer was opened in a list that also holds a flagged record.
C9_Witness ==
  /\ last.op = "openViewer"
  /\ ViewerShown
  /\ \E i \in 1..Len(images) : images[i].error

\* C10: markError(id) sets error on the record with that id and changes
\* nothing else: length, order, every id, url and createdAt, and the flag of
\* every other record stay, as do the cursor and the input.
C10_MarkErrorFrame ==
  [][last'.op = "handleImageError" =>
       /\ Len(images') = Len(images)
       /\ \A i \in 1..Len(images) :
            /\ images'[i].id = images[i].id
            /\ images'[i].url = images[i].url
            /\ images'[i].createdAt = images[i].createdAt
            /\ images'[i].error = (images[i].error \/ images[i].id = last'.arg)
       /\ UNCHANGED <<viewerIndex, urlInput, isSubmitting>>]_vars

\* C10 witness: one record was flagged and another one is not.
C10_Witness ==
  /\ last.op = "handleImageError"
  /\ \E i, j \in 1..Len(images) :
       /\ images[i].id = last.arg
       /\ images[i].error
       /\ ~images[j].error

----------------------------------------------------------------------------
(* C11.  Round trip: at startup over a stored text that the app wrote for a *)
(* list L, the list in memory becomes L, record by record and field by      *)
(* field in the stored order, and once the startup has settled the stored   *)
(* text is again the text of L.                                             *)

\* The record img is what the stored object obj says, member by member.
SameRecord(img, obj) ==
  /\ img.id = Member(obj, "id")
  /\ img.url = Member(obj, "url")
  /\ img.createdAt = Member(obj, "createdAt")
  /\ img.error = (\E k \in 1..Len(obj) : obj[k] = <<"error", TRUE>>)

C11_RoundTrip ==
  [][(last'.op = "mount" /\ storage.kind = "array")
       => /\ phase' = "ready"
          /\ Len(images') = Len(storage.items)
          /\ \A i \in 1..Len(images') : SameRecord(images'[i], storage.items[i])
          /\ Stringify(images') = storage
          /\ storage' = storage]_vars

\* A reload over a list of two records, the first one flagged, gave it back.
C11_Witness ==
  /\ last.op = "mount"
  /\ Len(images) = 2
  /\ images[1].error /\ ~images[2].error
  /\ images[1].createdAt > images[2].createdAt
  /\ storage = Stringify(images)

----------------------------------------------------------------------------
(* C12.  At startup over a missing or malformed stored text (nothing, a     *)
(* text that does not parse, or a JSON value that is not an array) the list *)
(* in memory is empty afterwards and the app is up.                         *)
C12_FallbackEmpty ==
  [][(last'.op = "mount" /\ storage.kind # "array")
       => (images' = <<>> /\ phase' = "ready")]_vars

----------------------------------------------------------------------------
(* C14.  While storage writes succeed, after every change of the list (add, *)
(* remove, mark as failed, shuffle) has settled, the stored text is the     *)
(* serialization of the list in memory.                                     *)
C14_StoredIsCurrent ==
  (phase = "ready" /\ lsMode = "ok")
    => /\ storage.kind = "array"
       /\ storage = Stringify(images)
       /\ Len(storage.items) = Len(images)
       /\ \A i \in 1..Len(images) : SameRecord(images[i], storage.items[i])

\* A record of a list of two was just flagged, and the stored text shows it.
C14_Witness ==
  /\ last.op = "handleImageError"
  /\ Len(images) = 2
  /\ \E i \in 1..2 : images[i].id = last.arg /\ images[i].error
  /\ \E i \in 1..2 : \E k \in 1..Len(storage.items[i]) :
       storage.items[i][k] = <<"error", TRUE>>

----------------------------------------------------------------------------
(* C20.  Removing a record that is in the list while the viewer is open at  *)
(* cursor c sets the cursor to min(c, newLength - 1), newLength being the   *)
(* length after the removal, wherever the removed record stands.            *)
C20_RemoveClamps ==
  [][(/\ last'.op = "removeImage"
      /\ viewerIndex.t = "num"
      /\ \E i \in 1..Len(images) : images[i].id = last'.arg)
       => LET c == viewerIndex.n
              newLength == Len(images')
          IN viewerIndex' = Num(IF c < newLength - 1 THEN c ELSE newLength - 1)]_vars

\* The last record of three was removed under the cursor: the cursor moved
\* down to the new last position.
C20_Witness ==
  /\ last.op = "removeImage"
  /\ Len(images) = 2
  /\ viewerIndex = Num(1)
  /\ \A i \in 1..2 : images[i].id # last.arg

----------------------------------------------------------------------------
(* C15.  The key bindings exist exactly while the viewer is open: where no  *)
(* viewer is open, after close() or after the removal that emptied the      *)
(* list, a key press leaves the whole state as it is.                       *)
C15_KeysOnlyWhileOpen ==
  [][(last'.op = "keydown" /\ (viewerIndex = Null \/ images = <<>>))
       => UNCHANGED <<phase, images, viewerIndex, urlInput, isSubmitting, storage,
                      isDarkMode, themeStore, touchStartX>>]_vars

----------------------------------------------------------------------------
(* C16.  A touch-end at x1 after a touch-start recorded at x0, with         *)
(* delta = x1 - x0: above 40 the cursor makes exactly the step of prev(),   *)
(* below -40 exactly the step of next(), from -40 to 40 it stays; the       *)
(* recorded start is cleared in every case.                                 *)
C16_Swipe ==
  [][(last'.op = "touchEnd" /\ touchStartX # Null)
       => LET delta == last'.arg - touchStartX.n
              N == Len(images)
              c == viewerIndex.n
          IN /\ touchStartX' = Null
             /\ images' = images
             /\ delta > 40 => viewerIndex' = Num((c + N - 1) % N)
             /\ delta < -40 => viewerIndex' = Num((c + 1) % N)
             /\ (-40 <= delta /\ delta <= 40) => viewerIndex' = viewerIndex]_vars

\* A gesture that ended at the rightmost position over a list of three left
\* the cursor on the last record.
C16_Witness ==
  /\ last.op = "touchEnd"
  /\ last.arg = 2 * Threshold + 1
  /\ touchStartX = Null
  /\ Len(images) = 3
  /\ viewerIndex = Num(2)

----------------------------------------------------------------------------
(* C13.  A storage call that throws is never fatal: startup, add, remove,   *)
(* mark as failed and the theme toggle still make their change in memory    *)
(* and leave the app up.                                                    *)
C13_StorageNeverFatal ==
  [][(lsMode # "ok" /\ phase # "crashed")
       => /\ last'.op \in {"mount", "addImage", "removeImage", "handleImageError",
                           "toggleDarkMode"} => phase' = "ready"
          /\ last'.op = "reload" => phase' = "boot"
          /\ last'.op = "toggleDarkMode" => isDarkMode' = ~isDarkMode
          /\ last'.op = "removeImage" => Len(images') = Len(images) - 1
          /\ (last'.op = "addImage" /\ last'.arg # 0) => Len(images') = Len(images) + 1]_vars

----------------------------------------------------------------------------
(* C17.  The flag at construction is the stored theme whenever a theme      *)
(* value is stored (dark exactly for the text "dark"); the OS preference    *)
(* decides only when nothing is stored.                                     *)
C17_StoredThemeFirst ==
  (phase = "boot" /\ last.op \in {"init", "reload"})
    => isDarkMode = (IF themeStore # ThemeMissing THEN themeStore = "dark" ELSE osDark)

\* As the code has it: an empty stored text counts as nothing stored.
C17_NonEmptyStoredThemeFirst ==
  (phase = "boot" /\ last.op \in {"init", "reload"})
    => isDarkMode = (IF themeStore \in {ThemeMissing, ""} THEN osDark
                     ELSE themeStore = "dark")

\* A reload with "light" stored under a dark OS starts light.
C17_Witness ==
  /\ phase = "boot"
  /\ last.op = "reload"
  /\ themeStore = "light"
  /\ osDark
  /\ ~isDarkMode

----------------------------------------------------------------------------
(* C18.  The toggle flips the flag and leaves the list, the cursor and the  *)
(* input alone; whenever the app is up and settled the stored theme is      *)
(* "dark" for a true flag and "light" otherwise; a reload starts with the   *)
(* flag of before, whatever the OS prefers.                                 *)
C18_TogglePersists ==
  [][/\ last'.op = "toggleDarkMode"
        => /\ isDarkMode' = ~isDarkMode
           /\ UNCHANGED <<images, viewerIndex, urlInput>>
     /\ phase' = "ready" => themeStore' = (IF isDarkMode' THEN "dark" ELSE "light")
     /\ (last'.op = "reload" /\ phase = "ready") => isDarkMode' = isDarkMode]_vars

\* The flag was toggled to dark under a light OS while the viewer showed the
\* one record of the list.
C18_Witness ==
  /\ last.op = "toggleDarkMode"
  /\ isDarkMode /\ ~osDark
  /\ themeStore = "dark"
  /\ Len(images) = 1
  /\ viewerIndex = Num(0)

----------------------------------------------------------------------------
(* C19.  The validator says yes exactly for a text that, trimmed, is not    *)
(* blank and parses as an absolute URL with scheme http or https; for every *)
(* other non-blank text it says no; the add button is enabled only when it  *)
(* says yes.                                                                *)
C19_ValidatorExact ==
  phase = "ready"
    => /\ isValidUrl <=> HttpUrlText(urlInput)
       /\ BlankText(urlInput) => ~isValidUrl
       /\ (~BlankText(urlInput) /\ FirstToken(urlInput) \notin {"http:", "https:"})
            => ~isValidUrl
       /\ ~SubmitDisabled => HttpUrlText(urlInput)

\* A plain http URL after white space is typed: valid, and the button is
\* enabled.
C19_Witness ==
  /\ phase = "ready"
  /\ urlInput = <<SP, "http:", "//x/a.png">>
  /\ isValidUrl
  /\ ~SubmitDisabled

----------------------------------------------------------------------------
(* C21.  The viewer starts closed, close() closes it, and only open(i)      *)
(* leaves the closed state: prev(), next(), close(), add, remove and mark   *)
(* as failed, applied while no viewer is open, leave no viewer open.        *)

\* No viewer is open: the cursor is null, or it is no position of the list
\* (the state the removal that empties the list leaves).
NoViewerOpen ==
  \/ viewerIndex = Null
  \/ viewerIndex.t # "num"
  \/ viewerIndex.n < 0
  \/ viewerIndex.n >= Len(images)

C21_OnlyOpenLeavesClosed ==
  [][/\ last'.op = "closeViewer" => viewerIndex' = Null
     /\ (/\ NoViewerOpen
         /\ last'.op \in {"goPrev", "goNext", "closeViewer", "addImage", "removeImage",
                           "handleImageError"})
          => NoViewerOpen']_vars

----------------------------------------------------------------------------
(* C22.  The in-flight flag is false in every state between two events; a   *)
(* valid add is never rejected because of an earlier one; two submits in a  *)
(* row, with nothing typed in between, add at most one record.              *)
C22_FlagNeverObserved ==
  [][/\ ~isSubmitting /\ ~isSubmitting'
     /\ (last'.op = "addImage" /\ HttpUrlText(urlInput))
          => (last'.arg # 0 /\ Len(images') = Len(images) + 1)
     /\ (last.op = "addImage" /\ last.arg # 0 /\ last'.op = "addImage")
          => images' = images]_vars

\* A second submit came right after an accepted one and was turned down, with
\* one record in the list.
C22_Witness ==
  /\ last.op = "addImage"
  /\ last.arg = 0
  /\ Len(images) = 1
  /\ images[1].url = UrlA
  /\ urlInput = Empty
  /\ ~isSubmitting

----------------------------------------------------------------------------
(* C23.  While the viewer is open on a record r, an add, or the removal of  *)
(* a record other than r, leaves the viewer open on r: the cursor           *)
(* afterwards is the new position of r.                                     *)
C23_ViewerFollowsRecord ==
  [][(/\ viewerIndex.t = "num"
      /\ 0 <= viewerIndex.n /\ viewerIndex.n < Len(images)
      /\ ~images[viewerIndex.n + 1].error
      /\ \/ last'.op = "addImage" /\ last'.arg # 0
         \/ last'.op = "removeImage" /\ last'.arg # images[viewerIndex.n + 1].id)
       => /\ viewerIndex'.t = "num"
          /\ 0 <= viewerIndex'.n /\ viewerIndex'.n < Len(images')
          /\ images'[viewerIndex'.n + 1].id = images[viewerIndex.n + 1].id]_vars

----------------------------------------------------------------------------
(* C24.  A record that is flagged as failed stays flagged in every later    *)
(* state in which it exists: no operation clears the flag, and writing the  *)
(* list out and loading it at the next start keeps it.                      *)

\* The list as it exists in a state: in memory while the app is up, in the
\* stored text between a reload and the load that follows.
RecordsKnown ==
  IF phase = "ready" THEN {<<images[i].id, images[i].error>> : i \in 1..Len(images)}
  ELSE IF storage.kind # "array" THEN {}
  ELSE {<<Member(storage.items[i], "id"),
          \E k \in 1..Len(storage.items[i]) : storage.items[i][k] = <<"error", TRUE>> >> :
          i \in 1..Len(storage.items)}

C24_FlagMonotonic ==
  [][\A id \in Ids :
       (<<id, TRUE>> \in RecordsKnown /\ (\E e \in BOOLEAN : <<id, e>> \in RecordsKnown'))
         => (<<id, TRUE>> \in RecordsKnown' /\ <<id, FALSE>> \notin RecordsKnown')]_vars

\* A record added and flagged in an earlier run came back flagged from the
\* storage.
C24_Witness ==
  /\ last.op = "mount"
  /\ phase = "ready"
  /\ \E i \in 1..Len(images) : images[i].error /\ images[i].url = UrlA

----------------------------------------------------------------------------
(* C25.  A load-failure callback for an id that is not in the list any more *)
(* changes nothing: the records, their order and flags, and the cursor stay *)
(* as they are.                                                             *)
C25_StaleErrorNoOp ==
  [][(/\ last'.op = "handleImageError"
      /\ \A i \in 1..Len(images) : images[i].id # last'.arg)
       => (images' = images /\ viewerIndex' = viewerIndex /\ storage' = storage)]_vars

\* The callback of a removed record arrived while the viewer was open over
\* a list of two.
C25_Witness ==
  /\ last.op = "handleImageError"
  /\ Len(images) = 2
  /\ \A i \in 1..2 : images[i].id # last.arg /\ ~images[i].error
  /\ viewerIndex = Num(1)

====
